---- MODULE Spec2Model ----
(***************************************************************************)
(* A model of csv_importer.py: class CSV2Redis (store_csv, get_records),   *)
(* its record encoding (csv.DictReader row -> json.dumps -> UTF-8 ->       *)
(* lzma.compress) and the main() driver that runs one action per process.  *)
(*                                                                         *)
(* Text is a sequence of one-character strings; the character outside      *)
(* ASCII is written "U+00E9".  A field value is a tagged record: a string, *)
(* None, or a list of strings (the shapes csv.DictReader produces).        *)
(***************************************************************************)
EXTENDS Integers, Sequences, FiniteSets, TLC

\* ---------------------------------------------------------------- bounds
MaxRows == 3
MaxBlank == 1020
MaxRuns == 2
MaxStrLen == 2

\* ------------------------------------------------------- values and dicts
Str(s) == [t |-> "str", s |-> s, l |-> <<>>]
None == [t |-> "none", s |-> <<>>, l |-> <<>>]
List(xs) == [t |-> "list", s |-> <<>>, l |-> xs]

NonAscii == {"U+00E9"}

\* dict item assignment d[k] = v: an existing key keeps its position
RECURSIVE DictSetFrom(_, _, _, _)
DictSetFrom(d, k, v, i) ==
  IF i > Len(d) THEN Append(d, [k |-> k, v |-> v])
  ELSE IF d[i].k = k THEN [d EXCEPT ![i] = [k |-> k, v |-> v]]
  ELSE DictSetFrom(d, k, v, i + 1)

DictSet(d, k, v) == DictSetFrom(d, k, v, 1)

Min(a, b) == IF a < b THEN a ELSE b

\* dict(zip(fieldnames, row))
RECURSIVE ZipDict(_, _, _, _)
ZipDict(fieldnames, row, i, acc) ==
  IF i > Min(Len(fieldnames), Len(row)) THEN acc
  ELSE ZipDict(fieldnames, row, i + 1, DictSet(acc, Str(fieldnames[i]), Str(row[i])))

\* for key in fieldnames[lr:]: d[key] = restval (None)
RECURSIVE PadDict(_, _, _)
PadDict(fieldnames, i, acc) ==
  IF i > Len(fieldnames) THEN acc
  ELSE PadDict(fieldnames, i + 1, DictSet(acc, Str(fieldnames[i]), None))

\* a reader that keeps only the zipped fields of a ragged row
DictRowNoRest(fieldnames, row) == ZipDict(fieldnames, row, 1, <<>>)

\* csv.DictReader.__next__ on a non-empty row: short rows are padded with
\* restval None, the surplus of a long row is kept as a list under restkey None
DictRow(fieldnames, row) ==
  LET d == ZipDict(fieldnames, row, 1, <<>>)
      lf == Len(fieldnames)
      lr == Len(row)
  IN IF lf < lr THEN DictSet(d, None, List(SubSeq(row, lf + 1, lr)))
     ELSE IF lf > lr THEN PadDict(fieldnames, lr + 1, d)
     ELSE d

\* row[key]
DictGet(d, k) == d[CHOOSE i \in 1..Len(d) : d[i].k = k].v

\* ------------------------------------------------------------- json.dumps
Hex4(c) == IF c = "U+00E9" THEN <<"0", "0", "e", "9">> ELSE <<"0", "0", "0", "0">>

\* an escaping that leaves the double quote as it is
JsonEscapeCharNoQuote(c) ==
  IF c = "\\" THEN <<"\\", "\\">>
  ELSE IF c = "\n" THEN <<"\\", "n">>
  ELSE IF c \in NonAscii THEN <<"\\", "u">> \o Hex4(c)
  ELSE <<c>>

\* py_encode_basestring_ascii: one character of a string
JsonEscapeChar(c) ==
  IF c = "\"" THEN <<"\\", "\"">>
  ELSE IF c = "\\" THEN <<"\\", "\\">>
  ELSE IF c = "\n" THEN <<"\\", "n">>
  ELSE IF c \in NonAscii THEN <<"\\", "u">> \o Hex4(c)
  ELSE <<c>>

RECURSIVE JsonEscape(_)
JsonEscape(s) ==
  IF s = <<>> THEN <<>> ELSE JsonEscapeChar(Head(s)) \o JsonEscape(Tail(s))

JsonString(s) == <<"\"">> \o JsonEscape(s) \o <<"\"">>

JsonNull == <<"n", "u", "l", "l">>

RECURSIVE JsonListItems(_)
JsonListItems(xs) ==
  IF xs = <<>> THEN <<>>
  ELSE JsonString(Head(xs))
       \o (IF Len(xs) > 1 THEN <<",", " ">> ELSE <<>>)
       \o JsonListItems(Tail(xs))

JsonValue(v) ==
  IF v.t = "str" THEN JsonString(v.s)
  ELSE IF v.t = "none" THEN JsonNull
  ELSE <<"[">> \o JsonListItems(v.l) \o <<"]">>

\* a dict key: a str is written as is, None becomes the string "null"
JsonKey(k) == IF k.t = "none" THEN JsonString(JsonNull) ELSE JsonString(k.s)

RECURSIVE JsonItems(_)
JsonItems(d) ==
  IF d = <<>> THEN <<>>
  ELSE JsonKey(Head(d).k) \o <<":", " ">> \o JsonValue(Head(d).v)
       \o (IF Len(d) > 1 THEN <<",", " ">> ELSE <<>>)
       \o JsonItems(Tail(d))

\* json.dumps(row) with the default separators and ensure_ascii
JsonDumps(d) == <<"{">> \o JsonItems(d) \o <<"}">>

\* ----------------------------------------------------------------- UTF-8
AsciiTable ==
  << <<"{", 123>>, <<"}", 125>>, <<"[", 91>>, <<"]", 93>>, <<"\"", 34>>,
     <<":", 58>>, <<",", 44>>, <<" ", 32>>, <<"\\", 92>>,
     <<"0", 48>>, <<"1", 49>>, <<"2", 50>>, <<"3", 51>>, <<"9", 57>>,
     <<"a", 97>>, <<"b", 98>>, <<"d", 100>>, <<"e", 101>>, <<"i", 105>>,
     <<"l", 108>>, <<"m", 109>>, <<"n", 110>>, <<"u", 117>> >>

\* the table read by character and read by code
AsciiCodeOf ==
  [c \in {AsciiTable[i][1] : i \in 1..Len(AsciiTable)} |->
     AsciiTable[CHOOSE i \in 1..Len(AsciiTable) : AsciiTable[i][1] = c][2]]

AsciiCharOf ==
  [b \in {AsciiTable[i][2] : i \in 1..Len(AsciiTable)} |->
     AsciiTable[CHOOSE i \in 1..Len(AsciiTable) : AsciiTable[i][2] = b][1]]

CharCode(c) == AsciiCodeOf[c]

CodeChar(b) == AsciiCharOf[b]

\* str.encode("UTF-8") of text that json.dumps left in ASCII
Utf8Encode(text) == [i \in 1..Len(text) |-> CharCode(text[i])]

Utf8Decode(bytes) == [i \in 1..Len(bytes) |-> CodeChar(bytes[i])]

\* ------------------------------------------------------------------ lzma
RECURSIVE CheckSum(_, _)
CheckSum(bytes, i) ==
  IF i > Len(bytes) THEN 0
  ELSE (i * bytes[i] + CheckSum(bytes, i + 1)) % 65521

\* the compressed payload: runs of equal bytes, <<byte, count>>
RECURSIVE Pack(_)
Pack(bytes) ==
  IF bytes = <<>> THEN <<>>
  ELSE LET rest == Pack(Tail(bytes))
       IN IF rest # <<>> /\ rest[1][1] = Head(bytes)
          THEN <<<<Head(bytes), rest[1][2] + 1>>>> \o Tail(rest)
          ELSE <<<<Head(bytes), 1>>>> \o rest

RECURSIVE Repeat(_, _)
Repeat(b, n) == IF n = 0 THEN <<>> ELSE <<b>> \o Repeat(b, n - 1)

RECURSIVE Unpack(_)
Unpack(runs) ==
  IF runs = <<>> THEN <<>>
  ELSE Repeat(Head(runs)[1], Head(runs)[2]) \o Unpack(Tail(runs))

\* lzma.compress(data, format=FORMAT_XZ, check=CHECK_CRC64, preset=1)
LzmaCompress(bytes) ==
  [magic |-> "xz", check |-> "CRC64", data |-> Pack(bytes), crc |-> CheckSum(bytes, 1)]

\* lzma.decompress(blob): the payload, or an LZMAError
LzmaDecompress(blob) ==
  LET bytes == Unpack(blob.data)
  IN IF blob.magic = "xz" /\ blob.check = "CRC64" /\ CheckSum(bytes, 1) = blob.crc
     THEN [ok |-> TRUE, bytes |-> bytes]
     ELSE [ok |-> FALSE, bytes |-> <<>>]

\* store_csv lines 72-77: the blob pushed for one row
Encode(d) == LzmaCompress(Utf8Encode(JsonDumps(d)))

\* ------------------------------------------------------------- json.loads
ParseFail == [ok |-> FALSE, val |-> None, next |-> 0]

RECURSIVE SkipWs(_, _)
SkipWs(t, i) == IF i <= Len(t) /\ t[i] = " " THEN SkipWs(t, i + 1) ELSE i

UnHex4(h) == IF \E c \in NonAscii : Hex4(c) = h
             THEN <<CHOOSE c \in NonAscii : Hex4(c) = h>>
             ELSE <<>>

\* scanstring: the characters after the opening quote, up to the closing one
RECURSIVE ParseStrBody(_, _, _)
ParseStrBody(t, i, acc) ==
  IF i > Len(t) THEN ParseFail
  ELSE IF t[i] = "\"" THEN [ok |-> TRUE, val |-> Str(acc), next |-> i + 1]
  ELSE IF t[i] = "\\" THEN
    IF i + 1 > Len(t) THEN ParseFail
    ELSE IF t[i + 1] = "\"" THEN ParseStrBody(t, i + 2, Append(acc, "\""))
    ELSE IF t[i + 1] = "\\" THEN ParseStrBody(t, i + 2, Append(acc, "\\"))
    ELSE IF t[i + 1] = "n" THEN ParseStrBody(t, i + 2, Append(acc, "\n"))
    ELSE IF t[i + 1] = "u" /\ i + 5 <= Len(t) /\ UnHex4(SubSeq(t, i + 2, i + 5)) # <<>>
      THEN ParseStrBody(t, i + 6, acc \o UnHex4(SubSeq(t, i + 2, i + 5)))
    ELSE ParseFail
  ELSE IF t[i] = "\n" THEN ParseFail
  ELSE ParseStrBody(t, i + 1, Append(acc, t[i]))

ParseStr(t, i) ==
  IF i <= Len(t) /\ t[i] = "\"" THEN ParseStrBody(t, i + 1, <<>>) ELSE ParseFail

\* the elements of an array, after "[" (the arrays stored are lists of strings)
RECURSIVE ParseListItems(_, _, _)
ParseListItems(t, i, acc) ==
  LET j == SkipWs(t, i)
      e == ParseStr(t, j)
      k == SkipWs(t, e.next)
  IN IF ~e.ok \/ k > Len(t) THEN ParseFail
     ELSE IF t[k] = "," THEN ParseListItems(t, k + 1, Append(acc, e.val.s))
     ELSE IF t[k] = "]" THEN [ok |-> TRUE, val |-> List(Append(acc, e.val.s)), next |-> k + 1]
     ELSE ParseFail

ParseValue(t, i) ==
  IF i > Len(t) THEN ParseFail
  ELSE IF t[i] = "\"" THEN ParseStr(t, i)
  ELSE IF t[i] = "n" THEN
    IF i + 3 <= Len(t) /\ SubSeq(t, i, i + 3) = JsonNull
    THEN [ok |-> TRUE, val |-> None, next |-> i + 4] ELSE ParseFail
  ELSE IF t[i] = "[" THEN
    IF SkipWs(t, i + 1) <= Len(t) /\ t[SkipWs(t, i + 1)] = "]"
    THEN [ok |-> TRUE, val |-> List(<<>>), next |-> SkipWs(t, i + 1) + 1]
    ELSE ParseListItems(t, i + 1, <<>>)
  ELSE ParseFail

\* the members of an object, after "{": "key": value pairs in text order
RECURSIVE ParseItems(_, _, _)
ParseItems(t, i, acc) ==
  LET k == ParseStr(t, SkipWs(t, i))
      c == SkipWs(t, k.next)
      v == ParseValue(t, SkipWs(t, c + 1))
      e == SkipWs(t, v.next)
  IN IF ~k.ok \/ c > Len(t) THEN ParseFail
     ELSE IF t[c] # ":" \/ ~v.ok \/ e > Len(t) THEN ParseFail
     ELSE IF t[e] = "," THEN ParseItems(t, e + 1, DictSet(acc, k.val, v.val))
     ELSE IF t[e] = "}" THEN [ok |-> TRUE, val |-> DictSet(acc, k.val, v.val), next |-> e + 1]
     ELSE ParseFail

\* OrderedDict(json.loads(text)) for a text holding one object
JsonLoads(t) ==
  LET i == SkipWs(t, 1)
  IN IF i > Len(t) \/ t[i] # "{" THEN [ok |-> FALSE, val |-> <<>>]
     ELSE IF SkipWs(t, i + 1) <= Len(t) /\ t[SkipWs(t, i + 1)] = "}"
       THEN [ok |-> SkipWs(t, SkipWs(t, i + 1) + 1) > Len(t), val |-> <<>>]
     ELSE LET r == ParseItems(t, i + 1, <<>>)
          IN IF r.ok /\ SkipWs(t, r.next) > Len(t)
             THEN [ok |-> TRUE, val |-> r.val]
             ELSE [ok |-> FALSE, val |-> <<>>]

\* get_records line 91, one element: OrderedDict(json.loads(lzma.decompress(r)))
Decode(blob) ==
  LET z == LzmaDecompress(blob)
  IN IF ~z.ok THEN [ok |-> FALSE, val |-> <<>>]
     ELSE IF \E i \in 1..Len(z.bytes) : z.bytes[i] \notin DOMAIN AsciiCharOf
       THEN [ok |-> FALSE, val |-> <<>>]
     ELSE JsonLoads(Utf8Decode(z.bytes))

\* --------------------------------------------------- the codec on its own
\* a record (ordered field name -> string value) is encoded, then decoded
Alphabet == {"a", ",", "\"", "\\", "\n", "U+00E9"}

RECURSIVE StringsUpTo(_)
StringsUpTo(n) ==
  IF n = 0 THEN {<<>>}
  ELSE LET S == StringsUpTo(n - 1)
       IN S \cup {Append(s, c) : s \in {x \in S : Len(x) = n - 1}, c \in Alphabet}

CodecFields == <<<<"i", "d">>, <<"n", "a", "m", "e">>>>

CodecRecords ==
  {DictRow(CodecFields, <<a, b>>) : a \in StringsUpTo(1), b \in StringsUpTo(MaxStrLen)}

VARIABLES
  cpc,         \* "off" in the program's runs; "new", "encoded", "decoded"
  crec,        \* the record given to the encoder
  cblob,       \* its blob
  cout         \* what the decoder made of the blob

cvars == <<cpc, crec, cblob, cout>>

CodecOff ==
  /\ cpc = "off"
  /\ crec = <<>>
  /\ cblob = LzmaCompress(<<>>)
  /\ cout = [ok |-> FALSE, val |-> <<>>]

\* two store processes and one get process on the same namespace
Writers == {1, 2}
Reader == 0

VARIABLES
  wpc,         \* writer -> "off", "flushdb", "loop", "done", "crashed"
  wsrc,        \* writer -> the source it opened
  widx,        \* writer -> data rows its reader has yielded
  rget,        \* the get process: state, key and records returned
  oplog        \* the store operations in the order the store served them

kvars == <<wpc, wsrc, widx, rget, oplog>>

\* ------------------------------------------------------------ the sources
\* A source file: the header line, `blank` empty lines (csv skips them, the
\* line count does not), then one line per data row.
Header == <<<<"i", "d">>, <<"n", "a", "m", "e">>>>

K1 == <<"1">>
K2 == <<"2">>
K3 == <<"3">>
KeySpace == {K1, K2, K3}

\* well-formed rows, a short row and a long row
RowChoices ==
  { <<K1, <<"a">>>>, <<K1, <<"b">>>>, <<K2, <<"a">>>>,
    <<K2>>, <<K3, <<"a">>, <<"b">>>> }

RECURSIVE RowSeqs(_)
RowSeqs(n) ==
  IF n = 0 THEN {<<>>}
  ELSE LET S == RowSeqs(n - 1)
       IN S \cup {Append(r, x) : r \in {y \in S : Len(y) = n - 1}, x \in RowChoices}

Sources ==
  {[st |-> "open", rows |-> r, blank |-> b] : r \in RowSeqs(MaxRows), b \in {0, MaxBlank}}

MissingSource == [st |-> "missing", rows |-> <<>>, blank |-> 0]
NoSource == [st |-> "closed", rows |-> <<>>, blank |-> 0]

\* ---------------------------------------------------------------- helpers
\* Python round(x, -2) on an int: nearest hundred, ties to the even hundred
Round100(x) ==
  LET q == x \div 100
      r == x % 100
  IN IF r < 50 THEN q * 100
     ELSE IF r > 50 THEN (q + 1) * 100
     ELSE IF q % 2 = 0 THEN q * 100 ELSE (q + 1) * 100

\* _get_record_count: the number of "\n" in the file
get_record_count(s) == 1 + s.blank + Len(s.rows)

\* check_count = round(n_records // 20, -2)
CheckCount(n) == Round100(n \div 20)

\* a FLUSHDB that leaves the groups in place
FlushDbKeep(d) == d

\* redis FLUSHDB
FlushDb(d) == [k \in KeySpace |-> <<>>]

\* redis LPUSH in the place of RPUSH
Lpush(d, k, blob) == [d EXCEPT ![k] = <<blob>> \o @]

\* a SET-like write that replaces the list by the new element
RpushOverwrite(d, k, blob) == [d EXCEPT ![k] = <<blob>>]

\* an RPUSH that is sent twice
RpushTwice(d, k, blob) == [d EXCEPT ![k] = Append(Append(@, blob), blob)]

\* redis RPUSH key value
Rpush(d, k, blob) == [d EXCEPT ![k] = Append(@, blob)]

\* redis LRANGE key 0 -1
Lrange(d, k) == d[k]

\* a read that takes the elements out of the list
AfterLrangeDrain(d, k) == [d EXCEPT ![k] = <<>>]

\* the namespace after LRANGE: the command reads, the list stays
AfterLrange(d, k) == d

\* the keys that exist in the store (a list exists while it is non-empty)
DbKeys(d) == {k \in KeySpace : d[k] # <<>>}

\* the list comprehension of get_records: every element decoded, in order
DecodeAll(blobs) == [i \in 1..Len(blobs) |-> Decode(blobs[i]).val]

\* a comprehension that passes over the elements it cannot decode
DecodeAllOkSkip(blobs) == TRUE

DecodeAllOk(blobs) == \A i \in 1..Len(blobs) : Decode(blobs[i]).ok

\* the exception of the first element that does not decode
DecodeError(blobs) ==
  LET i == CHOOSE j \in 1..Len(blobs) :
             ~Decode(blobs[j]).ok /\ \A h \in 1..(j - 1) : Decode(blobs[h]).ok
  IN IF LzmaDecompress(blobs[i]).ok THEN "JSONDecodeError" ELSE "LZMAError"

\* a stored element that this encoder did not leave as it is: not an xz
\* stream, a stream whose check fails, or a stream of cut-off JSON text
DamageKinds == {"magic", "crc", "json"}

Damage(blob, kind) ==
  IF kind = "magic" THEN [blob EXCEPT !.magic = "??"]
  ELSE IF kind = "crc" THEN [blob EXCEPT !.crc = (@ + 1) % 65521]
  ELSE LzmaCompress(SubSeq(Unpack(blob.data), 1, Len(Unpack(blob.data)) - 1))

\* get_records(key) on a store whose elements all decode
get_records(d, k) == DecodeAll(Lrange(d, k))

\* the message of the except clause: replacement fields {1} and {2},
\* formatted with the positional arguments (reader.line_num, e)
HandlerFields == {1, 2}
HandlerArgs == <<"reader.line_num", "e">>

\* what the except clause of store_csv raises itself ("none": it logs)
ExceptHandler(reader_bound) ==
  IF ~reader_bound THEN "UnboundLocalError"
  ELSE IF \E f \in HandlerFields : f + 1 > Len(HandlerArgs) THEN "IndexError"
  ELSE "none"

NoExc == [type |-> "none", at |-> "none"]

\* ------------------------------------------------------------------ state
VARIABLES
  db,          \* the namespace: key -> list of blobs
  saved,       \* the keys of the groups in the last durable snapshot
  pc,          \* position of the running process
  action,      \* args.action
  input,       \* args.input of a get: the key
  src,         \* the source file as opened by store_csv
  idx,         \* data rows the reader has yielded
  n_records,
  check_count,
  line_num,    \* reader.line_num
  calls,       \* the store operations this process has issued, in order
  exc,         \* the exception raised inside the process, and where
  uncaught,    \* the exception that left main()
  logged,      \* messages written by logger.error
  exit_code,   \* -1 while running
  result,      \* records returned by get_records
  runs         \* processes started

vars == <<db, saved, pc, action, input, src, idx, n_records, check_count,
          line_num, calls, exc, uncaught, logged, exit_code, result, runs>>

MainInit ==
  /\ db = [k \in KeySpace |-> <<>>]
  /\ saved = {}
  /\ pc = "idle"
  /\ action = "none"
  /\ input = <<>>
  /\ src = NoSource
  /\ idx = 0
  /\ n_records = 0
  /\ check_count = 0
  /\ line_num = 0
  /\ calls = <<>>
  /\ exc = NoExc
  /\ uncaught = "none"
  /\ logged = 0
  /\ exit_code = -1
  /\ result = <<>>
  /\ runs = 0

\* a new process: everything but the store starts afresh
ResetProcess ==
  /\ runs' = runs + 1
  /\ pc' = "construct"
  /\ src' = NoSource
  /\ idx' = 0
  /\ n_records' = 0
  /\ check_count' = 0
  /\ line_num' = 0
  /\ calls' = <<>>
  /\ exc' = NoExc
  /\ uncaught' = "none"
  /\ logged' = 0
  /\ exit_code' = -1
  /\ result' = <<>>
  /\ UNCHANGED <<db, saved, cvars, kvars>>

\* main: action == 'store'
StartStore ==
  /\ pc \in {"idle", "exited"}
  /\ runs < MaxRuns
  /\ action' = "store"
  /\ input' = <<>>
  /\ ResetProcess

\* main: action == 'get'
StartGet ==
  /\ pc \in {"idle", "exited"}
  /\ runs < MaxRuns
  /\ action' = "get"
  /\ \E k \in KeySpace : input' = k
  /\ ResetProcess

\* the process ends with exception type ty raised at place `at`
Abort(ty, at, unc) ==
  /\ exc' = [type |-> ty, at |-> at]
  /\ uncaught' = unc
  /\ exit_code' = 1
  /\ pc' = "exited"

\* a constructor that swallows the failed health check
AfterConstructAlways(ok, a) == IF a = "store" THEN "flushdb" ELSE "lrange"

\* where the process goes after the constructor: sys.exit(1) on a RedisError
AfterConstruct(ok, a) ==
  IF ~ok THEN "exited" ELSE IF a = "store" THEN "flushdb" ELSE "lrange"

\* CSV2Redis.__init__: redis.info('server') is the health check;
\* a RedisError is logged and the process exits with status 1
Construct ==
  /\ UNCHANGED <<cvars, kvars>>
  /\ pc = "construct"
  /\ calls' = Append(calls, "info")
  /\ \E ok \in BOOLEAN :
       /\ pc' = AfterConstruct(ok, action)
       /\ IF ok
          THEN UNCHANGED <<exc, uncaught, logged, exit_code>>
          ELSE /\ exc' = [type |-> "RedisError", at |-> "init"]
               /\ uncaught' = "SystemExit"
               /\ logged' = logged + 1
               /\ exit_code' = 1
  /\ UNCHANGED <<db, saved, action, input, src, idx, n_records, check_count,
                 line_num, result, runs>>

\* store_csv line 55: self.redis.flushdb()
Flushdb ==
  /\ UNCHANGED <<cvars, kvars>>
  /\ pc = "flushdb"
  /\ calls' = Append(calls, "flushdb")
  /\ \E ok \in BOOLEAN :
       IF ok
       THEN /\ db' = FlushDb(db)
            /\ pc' = "open"
            /\ UNCHANGED <<exc, uncaught, exit_code>>
       ELSE /\ Abort("RedisError", "flushdb", "RedisError")
            /\ UNCHANGED db
  /\ UNCHANGED <<saved, action, input, src, idx, n_records, check_count,
                 line_num, logged, result, runs>>

\* store_csv line 57: open(csv_file); a missing file raises outside the try
OpenSource ==
  /\ UNCHANGED <<cvars, kvars>>
  /\ pc = "open"
  /\ \E s \in Sources \cup {MissingSource} :
       /\ src' = s
       /\ IF s.st = "open"
          THEN /\ pc' = "count"
               /\ UNCHANGED <<exc, uncaught, exit_code>>
          ELSE Abort("FileNotFoundError", "open", "FileNotFoundError")
  /\ UNCHANGED <<db, saved, action, input, idx, n_records, check_count,
                 line_num, calls, logged, result, runs>>

\* store_csv lines 59-63: the line count, the reader, the progress interval
CountRecords ==
  /\ UNCHANGED <<cvars, kvars>>
  /\ pc = "count"
  /\ \E ok \in BOOLEAN :
       IF ok
       THEN /\ n_records' = get_record_count(src)
            /\ check_count' = CheckCount(get_record_count(src))
            /\ pc' = "loop"
            /\ UNCHANGED <<exc, uncaught, exit_code, logged>>
       ELSE /\ UNCHANGED <<n_records, check_count>>
            /\ IF ExceptHandler(FALSE) = "none"
               THEN /\ exc' = [type |-> "OSError", at |-> "count"]
                    /\ logged' = logged + 1
                    /\ pc' = "bgsave"
                    /\ UNCHANGED <<uncaught, exit_code>>
               ELSE /\ Abort("OSError", "count", ExceptHandler(FALSE))
                    /\ UNCHANGED logged
  /\ UNCHANGED <<db, saved, action, input, src, idx, line_num, calls, result, runs>>

\* the except clause of store_csv (lines 80-83) after an exception in the
\* loop: it leaves the loop; it logs and goes on to bgsave, or raises itself
RowFailure(ty) ==
  IF ExceptHandler(TRUE) = "none"
  THEN /\ exc' = [type |-> ty, at |-> "row"]
       /\ logged' = logged + 1
       /\ pc' = "bgsave"
       /\ UNCHANGED <<uncaught, exit_code>>
  ELSE /\ Abort(ty, "row", ExceptHandler(TRUE))
       /\ UNCHANGED logged

\* store_csv lines 64-79: one iteration of `for row in reader`
NextRow ==
  /\ UNCHANGED <<cvars, kvars>>
  /\ pc = "loop"
  /\ idx < Len(src.rows)
  /\ idx' = idx + 1
  /\ line_num' = 1 + src.blank + idx + 1
  /\ LET row == DictRow(Header, src.rows[idx + 1])
         key == Str(Header[1])
     IN IF check_count = 0
        THEN /\ RowFailure("ZeroDivisionError")
             /\ UNCHANGED <<db, calls>>
        ELSE /\ calls' = Append(calls, "rpush")
             /\ \E ok \in BOOLEAN :
                  IF ok
                  THEN /\ db' = Rpush(db, DictGet(row, key).s, Encode(row))
                       /\ UNCHANGED <<pc, exc, uncaught, exit_code, logged>>
                  ELSE /\ RowFailure("RedisError")
                       /\ UNCHANGED db
  /\ UNCHANGED <<saved, action, input, src, n_records, check_count, result, runs>>

\* the reader is exhausted: the loop and the with block end
LoopEnd ==
  /\ UNCHANGED <<cvars, kvars>>
  /\ pc = "loop"
  /\ idx = Len(src.rows)
  /\ pc' = "bgsave"
  /\ UNCHANGED <<db, saved, action, input, src, idx, n_records, check_count,
                 line_num, calls, exc, uncaught, logged, exit_code, result, runs>>

\* store_csv line 85: self.redis.bgsave(), then main() returns
Bgsave ==
  /\ UNCHANGED <<cvars, kvars>>
  /\ pc = "bgsave"
  /\ calls' = Append(calls, "bgsave")
  /\ \E ok \in BOOLEAN :
       IF ok
       THEN /\ saved' = DbKeys(db)
            /\ pc' = "exited"
            /\ exit_code' = 0
            /\ UNCHANGED <<exc, uncaught>>
       ELSE /\ Abort("RedisError", "bgsave", "RedisError")
            /\ UNCHANGED saved
  /\ UNCHANGED <<db, action, input, src, idx, n_records, check_count,
                 line_num, logged, result, runs>>

\* get_records (lines 87-92) and the printing in main (lines 128-130)
GetRecords ==
  /\ UNCHANGED <<cvars, kvars>>
  /\ pc = "lrange"
  /\ calls' = Append(calls, "lrange")
  /\ \E ok \in BOOLEAN :
       IF ~ok
       THEN /\ Abort("RedisError", "lrange", "RedisError")
            /\ UNCHANGED result
       ELSE IF ~DecodeAllOk(Lrange(db, input))
       THEN /\ Abort(DecodeError(Lrange(db, input)), "decode", DecodeError(Lrange(db, input)))
            /\ UNCHANGED result
       ELSE /\ result' = get_records(db, input)
            /\ pc' = "exited"
            /\ exit_code' = 0
            /\ UNCHANGED <<exc, uncaught>>
  /\ db' = IF exc'.at = "lrange" THEN db ELSE AfterLrange(db, input)
  /\ UNCHANGED <<saved, action, input, src, idx, n_records, check_count,
                 line_num, logged, runs>>

\* the store, outside the program: in a namespace so far intact, one element
\* of the group about to be read is damaged
Corrupt ==
  /\ UNCHANGED <<cvars, kvars>>
  /\ action = "get"
  /\ pc = "lrange"
  /\ \A k \in KeySpace : \A j \in 1..Len(db[k]) : Decode(db[k][j]).ok
  /\ \E i \in 1..Len(db[input]), kind \in DamageKinds :
       db' = [db EXCEPT ![input][i] = Damage(@, kind)]
  /\ UNCHANGED <<saved, pc, action, input, src, idx, n_records, check_count,
                 line_num, calls, exc, uncaught, logged, exit_code, result, runs>>

NoGet == [st |-> "off", key |-> <<>>, records |-> <<>>]

ConcOff ==
  /\ wpc = [p \in Writers |-> "off"]
  /\ wsrc = [p \in Writers |-> NoSource]
  /\ widx = [p \in Writers |-> 0]
  /\ rget = NoGet
  /\ oplog = <<>>

Init == MainInit /\ CodecOff /\ ConcOff

Next ==
  \/ StartStore
  \/ StartGet
  \/ Construct
  \/ Flushdb
  \/ OpenSource
  \/ CountRecords
  \/ NextRow
  \/ LoopEnd
  \/ Bgsave
  \/ GetRecords
  \/ Corrupt

allvars == <<vars, cvars, kvars>>

Spec == Init /\ [][Next]_allvars

\* ------------------------------------------- the codec, run on its own
CodecInit ==
  /\ MainInit
  /\ ConcOff
  /\ cpc = "new"
  /\ crec \in CodecRecords
  /\ cblob = LzmaCompress(<<>>)
  /\ cout = [ok |-> FALSE, val |-> <<>>]

\* store_csv lines 72-77 applied to the record
CodecEncode ==
  /\ cpc = "new"
  /\ cblob' = Encode(crec)
  /\ cpc' = "encoded"
  /\ UNCHANGED <<crec, cout, vars, kvars>>

\* get_records line 91 applied to the blob
CodecDecode ==
  /\ cpc = "encoded"
  /\ cout' = Decode(cblob)
  /\ cpc' = "decoded"
  /\ UNCHANGED <<crec, cblob, vars, kvars>>

CodecNext == CodecEncode \/ CodecDecode

SpecCodec == CodecInit /\ [][CodecNext]_allvars

\* ------------------------------- store and get processes, interleaved
\* Processes that have passed their constructor run at the same time on one
\* namespace; a step is one store operation together with the local code
\* that follows it up to the next store operation.  The store is reachable.
ConcSources ==
  { [st |-> "open", rows |-> << <<K1, <<"a">>>>, <<K1, <<"b">>>> >>, blank |-> MaxBlank],
    [st |-> "open", rows |-> << <<K1, <<"b">>>>, <<K2, <<"a">>>> >>, blank |-> MaxBlank],
    [st |-> "open", rows |-> << <<K2, <<"a">>>> >>, blank |-> MaxBlank],
    [st |-> "open", rows |-> << <<K1, <<"a">>>> >>, blank |-> 0] }

ConcInit ==
  /\ MainInit
  /\ CodecOff
  /\ wpc = [p \in Writers |-> "flushdb"]
  /\ wsrc = [p \in Writers |-> NoSource]
  /\ widx = [p \in Writers |-> 0]
  /\ rget = [st |-> "lrange", key |-> <<>>, records |-> <<>>]
  /\ oplog = <<>>

\* the variables of the single-process runs that these processes leave alone
mainrest == <<pc, action, input, src, idx, n_records, check_count, line_num,
              calls, exc, uncaught, logged, exit_code, result, runs>>

\* store_csv lines 55-63 in writer p: flushdb, then the source is opened
WFlushdb(p) ==
  /\ wpc[p] = "flushdb"
  /\ db' = FlushDb(db)
  /\ oplog' = Append(oplog, <<p, "flushdb">>)
  /\ \E s \in ConcSources : wsrc' = [wsrc EXCEPT ![p] = s]
  /\ wpc' = [wpc EXCEPT ![p] = "loop"]
  /\ UNCHANGED <<saved, widx, rget, mainrest, cvars>>

\* store_csv lines 64-83 in writer p: one iteration of the loop
WNextRow(p) ==
  /\ wpc[p] = "loop"
  /\ widx[p] < Len(wsrc[p].rows)
  /\ widx' = [widx EXCEPT ![p] = @ + 1]
  /\ LET row == DictRow(Header, wsrc[p].rows[widx[p] + 1])
         key == Str(Header[1])
     IN IF CheckCount(get_record_count(wsrc[p])) = 0
        THEN /\ wpc' = [wpc EXCEPT ![p] =
                          IF ExceptHandler(TRUE) = "none" THEN "bgsave" ELSE "crashed"]
             /\ UNCHANGED <<db, oplog>>
        ELSE /\ db' = Rpush(db, DictGet(row, key).s, Encode(row))
             /\ oplog' = Append(oplog, <<p, "rpush">>)
             /\ UNCHANGED wpc
  /\ UNCHANGED <<saved, wsrc, rget, mainrest, cvars>>

\* store_csv line 85 in writer p, once its reader is exhausted
WBgsave(p) ==
  /\ \/ wpc[p] = "loop" /\ widx[p] = Len(wsrc[p].rows)
     \/ wpc[p] = "bgsave"
  /\ saved' = DbKeys(db)
  /\ oplog' = Append(oplog, <<p, "bgsave">>)
  /\ wpc' = [wpc EXCEPT ![p] = "done"]
  /\ UNCHANGED <<db, wsrc, widx, rget, mainrest, cvars>>

\* get_records in the get process (its elements all decode here)
RGet ==
  /\ rget.st = "lrange"
  /\ \E k \in KeySpace :
       /\ rget' = [st |-> "done", key |-> k, records |-> get_records(db, k)]
       /\ db' = AfterLrange(db, k)
  /\ oplog' = Append(oplog, <<Reader, "lrange">>)
  /\ UNCHANGED <<saved, wpc, wsrc, widx, mainrest, cvars>>

ConcNext ==
  \/ \E p \in Writers : WFlushdb(p)
  \/ \E p \in Writers : WNextRow(p)
  \/ \E p \in Writers : WBgsave(p)
  \/ RGet

SpecConc == ConcInit /\ [][ConcNext]_allvars

\* ------------------------------------------------------------ properties
RowKey(r) == r[1]

IsRagged(r) == Len(r) # Len(Header)

WellFormed(s) == \A i \in 1..Len(s.rows) : ~IsRagged(s.rows[i])

\* the rows of the source whose append has taken effect
Appended == IF exc.at = "row" THEN idx - 1 ELSE idx

\* the first n rows that carry key k, in source order
RowsWithKey(rows, n, k) == SelectSeq(SubSeq(rows, 1, n), LAMBDA r : RowKey(r) = k)

\* a row as a record, written out field by field
AsRecord(r) ==
  IF Len(r) = 1 THEN <<[k |-> Str(Header[1]), v |-> Str(r[1])],
                       [k |-> Str(Header[2]), v |-> None]>>
  ELSE IF Len(r) = 2 THEN <<[k |-> Str(Header[1]), v |-> Str(r[1])],
                            [k |-> Str(Header[2]), v |-> Str(r[2])]>>
  ELSE <<[k |-> Str(Header[1]), v |-> Str(r[1])],
         [k |-> Str(Header[2]), v |-> Str(r[2])],
         [k |-> Str(JsonNull), v |-> List(SubSeq(r, 3, Len(r)))]>>

RecordsOf(rows) == [i \in 1..Len(rows) |-> AsRecord(rows[i])]

BlobsOf(rows) == [i \in 1..Len(rows) |-> Encode(DictRow(Header, rows[i]))]

Count(seq, x) == Cardinality({i \in 1..Len(seq) : seq[i] = x})

TotalElements(d) == Len(d[K1]) + Len(d[K2]) + Len(d[K3])

StoreEnded == action = "store" /\ pc = "exited"

\* no failure came from outside the program: store and file behaved
NoOutsideFailure == exc.type \notin {"RedisError", "FileNotFoundError", "OSError"}

\* C1: after a store run over a well-formed source with at least one data
\* row (store reachable, file readable), get_records(K) is exactly the
\* source rows with key K, and empty for a key that no row carries.
C1_AllRowsRetrievable ==
  (StoreEnded /\ src.st = "open" /\ Len(src.rows) >= 1 /\ WellFormed(src)
     /\ NoOutsideFailure)
  => \A k \in KeySpace :
       get_records(db, k) = RecordsOf(RowsWithKey(src.rows, Len(src.rows), k))

\* C2: when the processing of one row has failed, every later row of the
\* source is still read: the run ends only with the reader exhausted.
C2_FailedRowDoesNotStopLaterRows ==
  (StoreEnded /\ exc.at = "row") => idx = Len(src.rows)

\* C3: a store run in which a row failed still returns normally and has
\* triggered the durable snapshot.
C3_RowFailureStillSnapshots ==
  (StoreEnded /\ exc.at = "row")
  => (uncaught = "none" /\ exit_code = 0 /\ Count(calls, "bgsave") = 1)

\* store_csv has been entered by this process
InStoreCsv ==
  action = "store" /\ pc \notin {"idle", "construct", "flushdb"} /\ exc.at # "init"

\* C4: in every store run flushdb is issued exactly once and before any
\* append; once it has returned, the namespace holds groups only for keys of
\* this run's source and no more elements than the source has rows for the
\* key, whatever an earlier run had stored.
C4_FullReplace ==
  /\ action = "store" => Count(calls, "flushdb") <= 1
  /\ InStoreCsv =>
       /\ Count(calls, "flushdb") = 1
       /\ \A i \in 1..Len(calls) : calls[i] = "rpush" =>
            \E j \in 1..(i - 1) : calls[j] = "flushdb"
  /\ (InStoreCsv /\ exc.at # "flushdb") =>
       \A k \in KeySpace :
         /\ Len(db[k]) <= Len(RowsWithKey(src.rows, Len(src.rows), k))
         /\ \A j \in 1..Len(db[k]) :
              \E i \in 1..Len(src.rows) :
                RowKey(src.rows[i]) = k /\ db[k][j] = Encode(DictRow(Header, src.rows[i]))

\* C4 witness: the second run has processed its source; the snapshot of the
\* first run had a group for key "1", the namespace now has none, only "2"
C4_Witness ==
  /\ runs = 2 /\ action = "store" /\ pc = "bgsave" /\ exc = NoExc
  /\ K1 \in saved
  /\ DbKeys(db) = {K2}

\* C5: at every point of a store run group K holds the rows with key K
\* appended so far in source order, and get_records(K) returns them in that
\* order.
C5_GroupOrder ==
  (action = "store" /\ src.st = "open")
  => \A k \in KeySpace :
       /\ db[k] = BlobsOf(RowsWithKey(src.rows, Appended, k))
       /\ get_records(db, k) = RecordsOf(RowsWithKey(src.rows, Appended, k))

\* C5 witness: two rows of key "1" with a row of key "2" between them, stored
C5_Witness ==
  /\ StoreEnded /\ exit_code = 0
  /\ src.rows = << <<K1, <<"b">>>>, <<K2, <<"a">>>>, <<K1, <<"a">>>> >>
  /\ Len(db[K1]) = 2 /\ Len(db[K2]) = 1

OneRaggedRow == Cardinality({i \in 1..Len(src.rows) : IsRagged(src.rows[i])}) = 1

\* the rows of the source that are not ragged
GoodRows == SelectSeq(src.rows, LAMBDA r : ~IsRagged(r))

\* C6 as stated: with exactly one ragged row, a completed run has stored
\* every other row and nothing for the ragged row.
C6_RaggedRowSkipped ==
  (StoreEnded /\ exit_code = 0 /\ src.st = "open" /\ OneRaggedRow)
  => \A k \in KeySpace : db[k] = BlobsOf(RowsWithKey(GoodRows, Len(GoodRows), k))

\* C6 amended: a ragged row is not a failure.  With exactly one ragged row,
\* every row appended so far, the ragged one included, has exactly one
\* element; the ragged row's element decodes to the row with None for the
\* missing fields, or with the surplus values as a list under "null"; a run
\* that completes has one element per row of the source.
C6_RaggedRowStored ==
  (action = "store" /\ src.st = "open" /\ OneRaggedRow)
  => /\ TotalElements(db) = Appended
     /\ \A i \in 1..Appended : IsRagged(src.rows[i]) =>
          \E j \in 1..Len(db[RowKey(src.rows[i])]) :
            Decode(db[RowKey(src.rows[i])][j]) = [ok |-> TRUE, val |-> AsRecord(src.rows[i])]
     /\ (pc = "exited" /\ exit_code = 0) => TotalElements(db) = Len(src.rows)

\* C6 witness: a completed run whose only row for key "3" is the long row
C6_Witness ==
  /\ StoreEnded /\ exit_code = 0 /\ OneRaggedRow
  /\ Len(src.rows) >= 2
  /\ \E i \in 1..Len(src.rows) : IsRagged(src.rows[i]) /\ RowKey(src.rows[i]) = K3
  /\ Len(db[K3]) = 1

\* C7: decoding the blob that the encoding step made of a record of string
\* values gives back the record: same fields, same order, same values.
C7_RoundTrip == cpc = "decoded" => (cout.ok /\ cout.val = crec)

\* C7 witness: a value with a quote and a character outside ASCII, decoded
C7_Witness ==
  /\ cpc = "decoded"
  /\ crec[1].v.s = <<",">>
  /\ crec[2].v.s = <<"\"", "U+00E9">>

\* C8: when the health check of the constructor fails, the process has
\* exited with status 1 having issued the health check and nothing else:
\* the source is not opened, no row is read, no flushdb, rpush or bgsave.
C8_UnreachableStoreFailsFast ==
  exc.at = "init"
  => /\ pc = "exited" /\ exit_code = 1
     /\ calls = <<"info">>
     /\ src = NoSource /\ idx = 0

\* C8 witness: a store process that failed in the constructor while the
\* namespace still holds what an earlier run stored
C8_Witness ==
  /\ action = "store" /\ exc.at = "init" /\ pc = "exited"
  /\ DbKeys(db) # {}

\* C9: a store process exits nonzero exactly when the store could not be
\* reached or the source could not be read; row failures leave it zero.
C9_ExitCodeOnlyOnFatal ==
  StoreEnded
  => (exit_code # 0 <=> exc.at \in {"init", "flushdb", "bgsave", "open", "count"})

\* C10: a store_csv run (store and file behaving) has invoked bgsave exactly
\* once, as its last store operation.
C10_SnapshotOnceAndLast ==
  (StoreEnded /\ NoOutsideFailure)
  => (Count(calls, "bgsave") = 1 /\ calls[Len(calls)] = "bgsave")

\* C11: a failure of the up-front row count does not crash the run: no
\* exception leaves store_csv.
C11_CountFailureDoesNotCrash ==
  (StoreEnded /\ exc.at = "count") => (uncaught = "none" /\ exit_code = 0)

\* C12: for every line count N >= 1 the progress interval is a positive
\* integer, so that line_num % check_count is defined for every row.
C12_CheckCountPositive ==
  (action = "store" /\ n_records >= 1) => check_count >= 1

\* the step of a store process that reads the next data row
ReadsRow == action = "store" /\ action' = "store" /\ idx' = idx + 1

\* C13: each data row read causes at most one append, and the append goes to
\* the group named by the row's first value; no other step of the run after
\* flushdb appends; so the namespace never holds more elements than rows
\* read, and no group more than the rows read that carry its key.
C13_OneAppendPerRow ==
  /\ [](( action = "store" /\ src.st = "open")
         => /\ TotalElements(db) <= idx
            /\ Count(calls, "rpush") <= idx
            /\ \A k \in KeySpace : Len(db[k]) <= Len(RowsWithKey(src.rows, idx, k)))
  /\ [][ /\ ReadsRow =>
              \/ db' = db
              \/ \E b \in {Encode(DictRow(Header, src.rows[idx']))} :
                   db' = [db EXCEPT ![RowKey(src.rows[idx'])] = Append(@, b)]
         /\ (InStoreCsv /\ action' = "store" /\ idx' = idx) => db' = db
       ]_allvars

\* C13 witness: three rows read, three elements, in two groups
C13_Witness ==
  /\ action = "store" /\ pc = "loop" /\ idx = 3
  /\ Len(db[K1]) = 1 /\ Len(db[K2]) = 2 /\ Len(db[K3]) = 0

\* C16: when the source cannot be opened, the run has ended with the error
\* uncaught, having issued flushdb and (after the constructor's health
\* check) nothing else: the namespace is empty, no row was read or appended,
\* no snapshot was triggered.
C16_OpenFailureLeavesEmptyNamespace ==
  exc.at = "open"
  => /\ pc = "exited" /\ exit_code = 1 /\ uncaught = "FileNotFoundError"
     /\ calls = <<"info", "flushdb">>
     /\ DbKeys(db) = {}
     /\ idx = 0

\* C16 witness: the open failed in a run that followed a stored and
\* snapshotted source; what the earlier run stored is gone
C16_Witness ==
  /\ action = "store" /\ exc.at = "open" /\ runs = 2
  /\ saved # {}
  /\ DbKeys(db) = {}

\* the step in which a get process calls get_records
GetStep == action = "get" /\ pc = "lrange" /\ pc' = "exited"

\* C17: a call of get_records, succeeding or failing, leaves every group as
\* it was and creates none; a second call with the same key would find the
\* same elements and so give the same result.
C17_GetRecordsReadOnly ==
  [][GetStep =>
       /\ db' = db
       /\ saved' = saved
       /\ exit_code' = 0 => result' = get_records(db', input')
       /\ exc'.at = "decode" => \E i \in 1..Len(db'[input']) : ~Decode(db'[input'][i]).ok
    ]_allvars

\* C17 witness: a get that returned the two records of its key
C17_Witness ==
  /\ action = "get" /\ pc = "exited" /\ exit_code = 0
  /\ Len(result) = 2
  /\ Len(db[input]) = 2

\* C14: a get on a group with an element that does not decode fails as a
\* whole: the exception leaves get_records and main(), and no record is
\* returned, not even those of the intact elements before the corrupt one.
C14_CorruptBlobFailsWholeQuery ==
  (action = "get" /\ pc = "exited" /\ exc.at \notin {"init", "lrange"}
     /\ \E i \in 1..Len(db[input]) : ~Decode(db[input][i]).ok)
  => /\ exit_code = 1
     /\ exc.at = "decode"
     /\ uncaught \in {"LZMAError", "JSONDecodeError"}
     /\ result = <<>>

\* C14 witness: the first element of the group is intact, the second fails
\* its integrity check, and the query has failed
C14_Witness ==
  /\ action = "get" /\ pc = "exited" /\ exc.at = "decode"
  /\ Len(db[input]) = 2
  /\ Decode(db[input][1]).ok
  /\ ~LzmaDecompress(db[input][2]).ok

\* the rows of writer p whose append has taken effect
WAppended(p) == IF wpc[p] = "crashed" THEN widx[p] - 1 ELSE widx[p]

\* the positions of the log at which process p was served
Served(p) == {i \in 1..Len(oplog) : oplog[i][1] = p}

\* no writer was served between two operations of the other writer
WritersSerialized ==
  \A p \in Writers, q \in Writers :
    p # q => \A i \in Served(p), j \in Served(q), h \in Served(p) : ~(i < j /\ j < h)

WritersEnded == \A p \in Writers : wpc[p] \in {"done", "crashed"}

\* the writer whose flushdb was served last
LastWriter == CHOOSE p \in Writers : \A q \in Writers : \A i \in Served(q) :
                \E j \in Served(p) : oplog[j][2] = "flushdb" /\ (q = p \/ i < j)

\* the position at which the get was served
ReadAt == CHOOSE i \in 1..Len(oplog) : oplog[i][1] = Reader

\* writer p had completed its run when the get was served
CompletedBeforeRead(p) == \E i \in Served(p) : oplog[i][2] = "bgsave" /\ i < ReadAt

\* writer p had not issued anything when the get was served
NotBegunBeforeRead(p) == \A i \in Served(p) : ReadAt < i

\* C15 (the safe side): when the store served the two store runs one after
\* the other, the namespace ends as the contents of the later run's source;
\* and a get served while every run was either complete or not yet begun
\* returns a whole group of the latest completed run (nothing if none).
C15_SerializedRunsAreSafe ==
  /\ (WritersEnded /\ WritersSerialized)
     => \A k \in KeySpace :
          db[k] = BlobsOf(RowsWithKey(wsrc[LastWriter].rows, WAppended(LastWriter), k))
  /\ (rget.st = "done" /\ WritersEnded /\ WritersSerialized
        /\ \A p \in Writers : CompletedBeforeRead(p) \/ NotBegunBeforeRead(p))
     => \/ /\ \A p \in Writers : NotBegunBeforeRead(p)
           /\ rget.records = <<>>
        \/ \E p \in Writers :
             /\ CompletedBeforeRead(p)
             /\ \A q \in Writers : CompletedBeforeRead(q) =>
                  (q = p \/ \A i \in Served(q), j \in Served(p) : i < j)
             /\ rget.records
                  = RecordsOf(RowsWithKey(wsrc[p].rows, Len(wsrc[p].rows), rget.key))

\* C15 witness (the unsafe side): both runs completed without any error,
\* their operations interleaved; the namespace equals the full contents of
\* neither source, and the get, served inside a run, returned one record of
\* a key for which that run's source has two
C15_Witness ==
  /\ \A p \in Writers : wpc[p] = "done"
  /\ ~WritersSerialized
  /\ \A p \in Writers : \E k \in KeySpace :
       db[k] # BlobsOf(RowsWithKey(wsrc[p].rows, Len(wsrc[p].rows), k))
  /\ rget.st = "done"
  /\ \E p \in Writers :
       /\ ~CompletedBeforeRead(p) /\ ~NotBegunBeforeRead(p)
       /\ Len(rget.records) = 1
       /\ Len(RowsWithKey(wsrc[p].rows, Len(wsrc[p].rows), rget.key)) = 2

====
